---- MODULE Spec2Model ----
(***************************************************************************)
(* A model of the text core of the hecto-tutorial editor:                  *)
(*   - AnnotatedStringIterator::next (annotatedstringiterator.rs), the     *)
(*     merge of annotation ranges into render parts;                       *)
(*   - Buffer (view/buffer.rs): editing, range deletion, ring search,      *)
(*     loading and saving;                                                 *)
(*   - SelectHighlighter (highlighter/selecthighlighter.rs), the selection *)
(*     overlay of a line.                                                  *)
(* The text of an AnnotatedString is its sequence of UTF-8 bytes, one     *)
(* string per byte ("a" for an ASCII byte, "C3" and "A9" for the two bytes *)
(* of U+00E9); annotation offsets and current_idx are byte indices.  A     *)
(* Line of the Buffer is its sequence of graphemes, one character each.    *)
(***************************************************************************)
EXTENDS Integers, Sequences, FiniteSets, TLC

\* ------------------------------------------------------------------ bounds
MaxTextLen == 3
MaxAnnotations == 2
\* Buffers hold at most MaxLines lines and MaxGraphemes graphemes in all.
MaxLines == 3
MaxGraphemes == 2
\* A typing session holds at most MaxTyped graphemes in all.
MaxTyped == 3
\* Search queries hold at most MaxQueryLen graphemes.
MaxQueryLen == 2
\* The Buffers searched hold at most MaxSearchGraphemes graphemes in all.
MaxSearchGraphemes == 3

VARIABLES
    \* AnnotatedString / AnnotatedStringIterator
    string,          \* annotated_string.string
    annotations,     \* annotated_string.annotations, in registration order
    current_idx,     \* the iterator's cursor
    parts,           \* the parts next() has returned so far, in order
    yielded,         \* what the last next() returned: "Start", "Some", "None"
    \* Buffer
    lines,           \* Buffer.lines: a sequence of lines, each a sequence of graphemes
    dirty,           \* Buffer.dirty
    file_info,       \* Buffer.file_info.path: <<>> (no path) or <<file name>>
    written,         \* the files this session has written: file name -> contents
    \* SelectHighlighter
    selected_range,  \* SelectHighlighter.selected_range: a pair of Locations
    highlights,      \* SelectHighlighter.highlights: line index -> annotations
    \* the process
    debug_assertions,\* TRUE in a debug build (cfg(debug_assertions)), FALSE in release
    panicked,        \* TRUE once a panic has aborted the session
    pc,              \* "idle": awaiting the next operation; "returned": one has just run
    call,            \* the operation that has just run, with its arguments
    pre,             \* the Buffer as it was when that operation was called
    ret              \* what that operation returned

iterVars == <<string, annotations, current_idx, parts, yielded>>
bufVars == <<lines, dirty, file_info, written>>
selVars == <<selected_range, highlights>>
callVars == <<pc, call, pre, ret>>
vars == <<string, annotations, current_idx, parts, yielded,
          lines, dirty, file_info, written, selected_range, highlights,
          debug_assertions, panicked, pc, call, pre, ret>>

\* ------------------------------------------------------------ small helpers
Min(a, b) == IF a <= b THEN a ELSE b

\* usize::saturating_sub.  (saturating_add and + are modelled by +: every
\* index and count of the model is far below usize::MAX.)
SatSub(a, b) == IF a >= b THEN a - b ELSE 0

\* ------------------------------------------------------ annotation overlay
Select == "Select"
AnnotationType == {"Select", "Keyword", "Number"}

Annotation(t, s, e) == [annotation_type |-> t, start |-> s, end |-> e]

\* active_annotations: the annotations covering c, in registration order.
ActiveAnnotations(anns, c) ==
    SelectSeq(anns, LAMBDA a : a.start <= c /\ a.end > c)

\* active_annotations.iter().find(Select): <<>> or <<the first Select>>.
FindSelect(active) ==
    LET sel == SelectSeq(active, LAMBDA a : a.annotation_type = Select)
    IN  IF sel = <<>> THEN <<>> ELSE <<Head(sel)>>

\* The loop "for annotation in active: if not Select: end_idx = min(end_idx, end)".
RECURSIVE MinNonSelectEnd(_, _)
MinNonSelectEnd(active, end_idx) ==
    IF active = <<>> THEN end_idx
    ELSE MinNonSelectEnd(Tail(active),
            IF Head(active).annotation_type # Select
            THEN Min(end_idx, Head(active).end) ELSE end_idx)

\* A mutant of NonSelectStartBefore: the starts of the annotations to come
\* are not looked at.
NonSelectStartIgnored(anns, c, end_idx) == end_idx

\* A mutant of NonSelectStartBefore: the test "annotation.start >
\* current_idx" is "annotation.start >= current_idx".
RECURSIVE NonSelectStartFromCursor(_, _, _)
NonSelectStartFromCursor(anns, c, end_idx) ==
    IF anns = <<>> THEN end_idx
    ELSE NonSelectStartFromCursor(Tail(anns), c,
            IF /\ Head(anns).annotation_type # Select
               /\ Head(anns).start >= c
               /\ Head(anns).start < end_idx
            THEN Head(anns).start ELSE end_idx)

\* The loop "for annotation in all: if not Select and start in (c, end_idx):
\* end_idx = start".
RECURSIVE NonSelectStartBefore(_, _, _)
NonSelectStartBefore(anns, c, end_idx) ==
    IF anns = <<>> THEN end_idx
    ELSE NonSelectStartBefore(Tail(anns), c,
            IF /\ Head(anns).annotation_type # Select
               /\ Head(anns).start > c
               /\ Head(anns).start < end_idx
            THEN Head(anns).start ELSE end_idx)

\* The Select branch: the end of the part that starts at c.
SelectBranchEnd(len, anns, active, select_ann, c) ==
    NonSelectStartBefore(anns, c,
        MinNonSelectEnd(active, Min(select_ann.end, len)))

\* The loop "for annotation in active: end_idx = min(end_idx, end)".
RECURSIVE MinActiveEnd(_, _)
MinActiveEnd(active, end_idx) ==
    IF active = <<>> THEN end_idx
    ELSE MinActiveEnd(Tail(active), Min(end_idx, Head(active).end))

\* The loop "for annotation in all: if Select and start in (c, end_idx):
\* end_idx = start; break": the first such Select in registration order.
RECURSIVE FirstSelectStartBefore(_, _, _)
FirstSelectStartBefore(anns, c, end_idx) ==
    IF anns = <<>> THEN end_idx
    ELSE IF /\ Head(anns).annotation_type = Select
            /\ Head(anns).start > c
            /\ Head(anns).start < end_idx
         THEN Head(anns).start
         ELSE FirstSelectStartBefore(Tail(anns), c, end_idx)

\* The branch with active annotations, none of them Select.
NoSelectBranchEnd(len, anns, active, c) ==
    FirstSelectStartBefore(anns, c, MinActiveEnd(active, len))

\* A mutant of EmptyBranchEnd: with no active annotation the part is one
\* character long.
EmptyBranchEndOneChar(anns, c, end_idx) == c + 1

\* No active annotation: "for annotation in all: if start in (c, end_idx):
\* end_idx = start", from end_idx = len.
RECURSIVE EmptyBranchEnd(_, _, _)
EmptyBranchEnd(anns, c, end_idx) ==
    IF anns = <<>> THEN end_idx
    ELSE EmptyBranchEnd(Tail(anns), c,
            IF Head(anns).start > c /\ Head(anns).start < end_idx
            THEN Head(anns).start ELSE end_idx)

\* end_idx of the part next() returns when current_idx = c < len.
NextEndIdx(str, anns, c) ==
    LET active == ActiveAnnotations(anns, c)
        sel    == FindSelect(active)
    IN  IF active # <<>>
        THEN IF sel # <<>>
             THEN SelectBranchEnd(Len(str), anns, active, sel[1], c)
             ELSE NoSelectBranchEnd(Len(str), anns, active, c)
        ELSE EmptyBranchEnd(anns, c, Len(str))

\* annotation_types of the part: the types of the active annotations, in
\* registration order.
AnnotationTypes(active) ==
    [i \in 1..Len(active) |-> active[i].annotation_type]

\* The bytes 0x80..0xBF, which continue a UTF-8 character: here 0xA9, the
\* second byte of U+00E9 (0xC3 0xA9).
ContinuationBytes == {"A9"}

\* str::is_char_boundary(idx): the start, the end, or a byte that starts a
\* character; no index past the end.
IsCharBoundary(str, idx) ==
    \/ idx = 0
    \/ idx = Len(str)
    \/ (idx < Len(str) /\ str[idx + 1] \notin ContinuationBytes)

\* &string[start_idx..end_idx] panics unless start_idx <= end_idx <= len and
\* both indices are char boundaries.
SliceOk(str, start_idx, end_idx) ==
    /\ start_idx <= end_idx
    /\ end_idx <= Len(str)
    /\ IsCharBoundary(str, start_idx)
    /\ IsCharBoundary(str, end_idx)

\* AnnotatedStringPart, with the offsets the slice was cut at.
Part(str, active, start_idx, end_idx) ==
    [string           |-> SubSeq(str, start_idx + 1, end_idx),
     annotation_types |-> AnnotationTypes(active),
     start            |-> start_idx,
     end              |-> end_idx]

\* next() with text left: returns Some(part) and moves the cursor.
IterNextSome ==
    /\ ~panicked
    /\ current_idx < Len(string)
    /\ Len(parts) <= MaxTextLen          \* cap on the number of parts recorded
    /\ LET c       == current_idx
           end_idx == NextEndIdx(string, annotations, c)
           active  == ActiveAnnotations(annotations, c)
       IN  /\ current_idx' = end_idx
           /\ IF SliceOk(string, c, end_idx)
              THEN /\ parts' = Append(parts, Part(string, active, c, end_idx))
                   /\ yielded' = "Some"
                   /\ UNCHANGED panicked
              ELSE /\ panicked' = TRUE
                   /\ UNCHANGED <<parts, yielded>>
    /\ UNCHANGED <<string, annotations>>
    /\ UNCHANGED <<bufVars, callVars, selVars, debug_assertions>>

\* next() once exhausted: returns None and changes nothing.
IterNextNone ==
    /\ ~panicked
    /\ current_idx >= Len(string)
    /\ yielded' = "None"
    /\ UNCHANGED <<string, annotations, current_idx, parts, panicked>>
    /\ UNCHANGED <<bufVars, callVars, selVars, debug_assertions>>

\* ------------------------------------------------------------------- Line
\* Line (line.rs) is not among the source files: its operations are modelled
\* from the specification, section 4.2.  A Line is its sequence of graphemes.
Chars == {"a", "b"}

\* Line::grapheme_count
GraphemeCount(line) == Len(line)

\* Line::insert_char(ch, at), at <= grapheme_count: one new cluster at index at.
LineInsertChar(line, ch, at) ==
    SubSeq(line, 1, Min(at, Len(line))) \o <<ch>>
        \o SubSeq(line, Min(at, Len(line)) + 1, Len(line))

\* Line::delete(at): removes the cluster at index at; no-op out of bounds.
LineDelete(line, at) ==
    IF at < Len(line)
    THEN SubSeq(line, 1, at) \o SubSeq(line, at + 2, Len(line))
    ELSE line

\* Line::split(at): the line keeps [0, at), the returned Line holds [at, end).
LineSplitHead(line, at) == SubSeq(line, 1, Min(at, Len(line)))
LineSplitTail(line, at) == SubSeq(line, Min(at, Len(line)) + 1, Len(line))

\* Line::append(other)
LineAppend(line, other) == line \o other

\* Line::get_a_grapheme(at): the cluster at index at, None out of bounds.
LineGetAGrapheme(line, at) ==
    IF at < Len(line) THEN <<line[at + 1]>> ELSE <<>>

\* ----------------------------------------------------------------- Buffer
Location(l, g) == [line_idx |-> l, grapheme_idx |-> g]

\* Buffer::height
Height(ls) == Len(ls)

\* self.lines.get(idx) is Some
HasLine(ls, idx) == 0 <= idx /\ idx < Len(ls)

\* Buffer::grapheme_count
BufferGraphemeCount(ls, idx) ==
    IF HasLine(ls, idx) THEN GraphemeCount(ls[idx + 1]) ELSE 0

\* Vec::remove(idx) and Vec::insert(idx, x), idx counted from 0.
VecRemove(v, idx) == SubSeq(v, 1, idx) \o SubSeq(v, idx + 2, Len(v))
VecInsert(v, idx, x) == SubSeq(v, 1, idx) \o <<x>> \o SubSeq(v, idx + 1, Len(v))

\* The part of a Buffer the edit operations read and write.
Buf(ls, d) == [lines |-> ls, dirty |-> d]

\* The outcome of an operation: the Buffer it leaves, and whether it panicked.
Done(b) == [buf |-> b, panic |-> FALSE]
Panic(b) == [buf |-> b, panic |-> TRUE]

\* A mutant of BufferInsertChar: the test "at.line_idx == self.height()" and
\* its push are lost, so nothing is inserted past the last line.
BufferInsertCharNoAppend(b, debug, character, at) ==
    IF debug /\ ~(at.line_idx <= Height(b.lines))
    THEN Panic(b)
    ELSE IF HasLine(b.lines, at.line_idx)
    THEN Done(Buf([b.lines EXCEPT ![at.line_idx + 1] =
                      LineInsertChar(@, character, at.grapheme_idx)], TRUE))
    ELSE Done(b)

\* Buffer::insert_char
BufferInsertChar(b, debug, character, at) ==
    IF debug /\ ~(at.line_idx <= Height(b.lines))
    THEN Panic(b)                                   \* debug_assert!
    ELSE IF at.line_idx = Height(b.lines)
    THEN Done(Buf(Append(b.lines, <<character>>), TRUE))
    ELSE IF HasLine(b.lines, at.line_idx)
    THEN Done(Buf([b.lines EXCEPT ![at.line_idx + 1] =
                      LineInsertChar(@, character, at.grapheme_idx)], TRUE))
    ELSE Done(b)

\* A mutant of BufferDelete: at or past the end of the last line, where there
\* is nothing to merge, dirty is set all the same.
BufferDeleteDirtyAtEnd(b, at) ==
    IF HasLine(b.lines, at.line_idx)
    THEN LET line == b.lines[at.line_idx + 1]
         IN  IF at.grapheme_idx >= GraphemeCount(line)
             THEN IF Height(b.lines) > at.line_idx + 1
                  THEN Buf([VecRemove(b.lines, at.line_idx + 1)
                               EXCEPT ![at.line_idx + 1] =
                                   LineAppend(@, b.lines[at.line_idx + 2])], TRUE)
                  ELSE Buf(b.lines, TRUE)
             ELSE Buf([b.lines EXCEPT ![at.line_idx + 1] =
                          LineDelete(@, at.grapheme_idx)], TRUE)
    ELSE b

\* A mutant of BufferDelete: the next line is merged only when grapheme_idx is
\* exactly the line's end ("==" for ">=").
BufferDeleteMergeOnlyAtEnd(b, at) ==
    IF HasLine(b.lines, at.line_idx)
    THEN LET line == b.lines[at.line_idx + 1]
         IN  IF /\ at.grapheme_idx = GraphemeCount(line)
                /\ Height(b.lines) > at.line_idx + 1
             THEN Buf([VecRemove(b.lines, at.line_idx + 1)
                          EXCEPT ![at.line_idx + 1] =
                              LineAppend(@, b.lines[at.line_idx + 2])], TRUE)
             ELSE IF at.grapheme_idx < GraphemeCount(line)
             THEN Buf([b.lines EXCEPT ![at.line_idx + 1] =
                          LineDelete(@, at.grapheme_idx)], TRUE)
             ELSE b
    ELSE b

\* Buffer::delete
BufferDelete(b, at) ==
    IF HasLine(b.lines, at.line_idx)
    THEN LET line == b.lines[at.line_idx + 1]
         IN  IF /\ at.grapheme_idx >= GraphemeCount(line)
                /\ Height(b.lines) > at.line_idx + 1
             THEN Buf([VecRemove(b.lines, at.line_idx + 1)
                          EXCEPT ![at.line_idx + 1] =
                              LineAppend(@, b.lines[at.line_idx + 2])], TRUE)
             ELSE IF at.grapheme_idx < GraphemeCount(line)
             THEN Buf([b.lines EXCEPT ![at.line_idx + 1] =
                          LineDelete(@, at.grapheme_idx)], TRUE)
             ELSE b
    ELSE b

\* delete_range: was_backward
WasBackward(start, end) ==
    \/ start.line_idx > end.line_idx
    \/ (start.line_idx = end.line_idx /\ start.grapheme_idx > end.grapheme_idx)

\* The mutant of NormalizeRange: only the line indices are compared.
NormalizeRangeByLineOnly(range) ==
    IF range[1].line_idx > range[2].line_idx
    THEN <<range[2], range[1]>> ELSE range

\* delete_range: the normalized (start, end) of a SelectRange.
NormalizeRange(range) ==
    IF WasBackward(range[1], range[2]) THEN <<range[2], range[1]>> ELSE range

\* delete_range: the loop over the middle lines line_idx..end_line - 1, adding
\* each line's grapheme count to count; -1 when self.lines[line_idx] is out of
\* bounds (index panic).
RECURSIVE MiddleLinesCount(_, _, _, _)
MiddleLinesCount(ls, line_idx, end_line, count) ==
    IF line_idx >= end_line THEN count
    ELSE IF ~HasLine(ls, line_idx) THEN -1
    ELSE MiddleLinesCount(ls, line_idx + 1, end_line,
                          count + GraphemeCount(ls[line_idx + 1]))

\* The mutant of DeletionCount: the line boundaries crossed are not counted.
DeletionCountNoNewlines(ls, start, end) ==
    IF start.line_idx = end.line_idx
    THEN SatSub(end.grapheme_idx, start.grapheme_idx)
    ELSE IF ~HasLine(ls, start.line_idx) THEN -1
    ELSE LET first  == SatSub(GraphemeCount(ls[start.line_idx + 1]),
                              start.grapheme_idx)
             middle == MiddleLinesCount(ls, start.line_idx + 1, end.line_idx, first)
         IN  IF middle < 0 THEN -1 ELSE middle + end.grapheme_idx

\* delete_range: deletion_count for the normalized range; -1 when computing it
\* panics (self.lines[..] out of bounds).
DeletionCount(ls, start, end) ==
    IF start.line_idx = end.line_idx
    THEN SatSub(end.grapheme_idx, start.grapheme_idx)
    ELSE IF ~HasLine(ls, start.line_idx) THEN -1
    ELSE LET first  == SatSub(GraphemeCount(ls[start.line_idx + 1]),
                              start.grapheme_idx)
             middle == MiddleLinesCount(ls, start.line_idx + 1, end.line_idx, first)
         IN  IF middle < 0 THEN -1
             ELSE middle + end.grapheme_idx
                         + SatSub(end.line_idx, start.line_idx)

\* delete_range: "for _ in 0..deletion_count { self.delete(start) }"
RECURSIVE DeleteTimes(_, _, _)
DeleteTimes(b, at, n) ==
    IF n <= 0 THEN b ELSE DeleteTimes(BufferDelete(b, at), at, n - 1)

\* Buffer::delete_range
BufferDeleteRange(b, range) ==
    LET norm  == NormalizeRange(range)
        count == DeletionCount(b.lines, norm[1], norm[2])
    IN  IF count < 0 THEN Panic(b)
        ELSE Done(DeleteTimes(b, norm[1], count))

\* A mutant of BufferInsertNewline: the tail of the split line is inserted
\* at at.line_idx, before the head, not after it.
BufferInsertNewlineTailBefore(b, at) ==
    IF at.line_idx = Height(b.lines)
    THEN Buf(Append(b.lines, <<>>), TRUE)
    ELSE IF HasLine(b.lines, at.line_idx)
    THEN LET line == b.lines[at.line_idx + 1]
         IN  Buf(VecInsert([b.lines EXCEPT ![at.line_idx + 1] =
                               LineSplitHead(line, at.grapheme_idx)],
                           at.line_idx,
                           LineSplitTail(line, at.grapheme_idx)), TRUE)
    ELSE b

\* Buffer::insert_newline
BufferInsertNewline(b, at) ==
    IF at.line_idx = Height(b.lines)
    THEN Buf(Append(b.lines, <<>>), TRUE)
    ELSE IF HasLine(b.lines, at.line_idx)
    THEN LET line == b.lines[at.line_idx + 1]
         IN  Buf(VecInsert([b.lines EXCEPT ![at.line_idx + 1] =
                               LineSplitHead(line, at.grapheme_idx)],
                           at.line_idx + 1,
                           LineSplitTail(line, at.grapheme_idx)), TRUE)
    ELSE b

\* Buffer::get_a_grapheme: <<>> is None, <<g>> is Some(g).
BufferGetAGrapheme(ls, at) ==
    IF HasLine(ls, at.line_idx)
    THEN LET line == ls[at.line_idx + 1]
         IN  IF at.grapheme_idx < GraphemeCount(line)
             THEN LineGetAGrapheme(line, at.grapheme_idx)
             ELSE IF at.grapheme_idx = GraphemeCount(line)
             THEN <<"\n">>
             ELSE <<>>
    ELSE <<>>

\* ----------------------------------------------------------------- search
\* Option<T>: <<>> is None, <<x>> is Some(x).
None == <<>>
Some(x) == <<x>>

\* query occurs in line at grapheme index i.
MatchesAt(line, query, i) ==
    /\ i + Len(query) <= Len(line)
    /\ SubSeq(line, i + 1, i + Len(query)) = query

\* Line::search_forward(query, from) (specification, section 4.2): the index
\* of the first occurrence of query that starts at or after from.
LineSearchForward(line, query, from) ==
    LET found == {i \in from..Len(line) : MatchesAt(line, query, i)}
    IN  IF found = {} THEN None
        ELSE Some(CHOOSE i \in found : \A j \in found : i <= j)

\* Line::search_backward(query, from) (specification, section 4.2): scanning
\* backward from from, the index of the last occurrence of query that ends at
\* or before from.
LineSearchBackward(line, query, from) ==
    LET found == {i \in 0..Len(line) :
                     MatchesAt(line, query, i) /\ i + Len(query) <= from}
    IN  IF found = {} THEN None
        ELSE Some(CHOOSE i \in found : \A j \in found : i >= j)

\* self.lines.iter().enumerate(): the pairs <<line_idx, line>>.
Enumerate(ls) == [i \in 1..Len(ls) |-> <<i - 1, ls[i]>>]

\* Iterator::rev
Rev(seq) == [i \in 1..Len(seq) |-> seq[Len(seq) + 1 - i]]

\* A mutant of CycleSkipTake: one item fewer is taken.
CycleSkipTakeOneLess(seq, skip, take) ==
    IF seq = <<>> THEN <<>>
    ELSE [k \in 1..(take - 1) |-> seq[((skip + k - 1) % Len(seq)) + 1]]

\* iter.cycle().skip(skip).take(take): nothing when iter is empty.
CycleSkipTake(seq, skip, take) ==
    IF seq = <<>> THEN <<>>
    ELSE [k \in 1..take |-> seq[((skip + k - 1) % Len(seq)) + 1]]

\* search_forward: the loop over the lines visited; the first line is searched
\* from from.grapheme_idx, the others from 0.
RECURSIVE ForwardLoop(_, _, _, _)
ForwardLoop(visits, query, from, is_first) ==
    IF visits = <<>> THEN None
    ELSE LET line_idx == Head(visits)[1]
             line == Head(visits)[2]
             from_grapheme_idx == IF is_first THEN from.grapheme_idx ELSE 0
             found == LineSearchForward(line, query, from_grapheme_idx)
         IN  IF found # None
             THEN Some(Location(line_idx, found[1]))
             ELSE ForwardLoop(Tail(visits), query, from, FALSE)

\* Buffer::search_forward
BufferSearchForward(ls, query, from) ==
    IF query = <<>> THEN None
    ELSE ForwardLoop(CycleSkipTake(Enumerate(ls), from.line_idx, Len(ls) + 1),
                     query, from, TRUE)

\* search_backward: the loop over the lines visited; the first line is
\* searched from from.grapheme_idx, the others from their end.
RECURSIVE BackwardLoop(_, _, _, _)
BackwardLoop(visits, query, from, is_first) ==
    IF visits = <<>> THEN None
    ELSE LET line_idx == Head(visits)[1]
             line == Head(visits)[2]
             from_grapheme_idx ==
                 IF is_first THEN from.grapheme_idx ELSE GraphemeCount(line)
             found == LineSearchBackward(line, query, from_grapheme_idx)
         IN  IF found # None
             THEN Some(Location(line_idx, found[1]))
             ELSE BackwardLoop(Tail(visits), query, from, FALSE)

\* A mutant of BackwardVisits: the lines are skipped by from.line_idx, as in
\* the forward search.
BackwardVisitsSkipFromLine(ls, from) ==
    CycleSkipTake(Rev(Enumerate(ls)), from.line_idx, Len(ls) + 1)

\* search_backward: the lines visited, in order:
\* enumerate().rev().cycle().skip(len - from.line_idx - 1).take(len + 1).
BackwardVisits(ls, from) ==
    CycleSkipTake(Rev(Enumerate(ls)),
                  SatSub(SatSub(Len(ls), from.line_idx), 1),
                  Len(ls) + 1)

\* Buffer::search_backward
BufferSearchBackward(ls, query, from) ==
    IF query = <<>> THEN None
    ELSE BackwardLoop(BackwardVisits(ls, from), query, from, TRUE)

\* ------------------------------------------------------------------ files
\* FileInfo (fileinfo.rs) is not among the source files: a FileInfo is its
\* path, None or Some(file name) (specification, section 3).
NoPath == None

\* FileInfo::from(file_name)
FileInfoFrom(file_name) == Some(file_name)

\* The file names of the model, and the initial value of written: no file
\* written yet.
FileName == "a.txt"
FileNames == {FileName}
NothingWritten == [f \in FileNames |-> None]

\* writeln!(file, "{line}") for every line: each line, then a line terminator.
RECURSIVE Serialize(_)
Serialize(ls) ==
    IF ls = <<>> THEN <<>> ELSE Head(ls) \o <<"\n">> \o Serialize(Tail(ls))

\* How a write to the file system goes: "ok"; "create": File::create fails and
\* writes nothing; <<"write", m>>: the file was created, the file system took
\* the first m bytes of what the writeln! calls write, and the writeln! that
\* writes the next byte fails: a line can be left written in part.
IoOutcomes(ls) ==
    {<<"ok">>, <<"create">>}
        \cup {<<"write", m>> : m \in 0..(Len(Serialize(ls)) - 1)}

\* Buffer::save_to_file: the Result it returns (or the panic) and the files
\* it leaves.
SaveToFile(ls, path, files, debug, io) ==
    IF path # None
    THEN IF io = <<"create">>
         THEN [result |-> "Err", files |-> files]
         ELSE IF io[1] = "write"
         THEN [result |-> "Err",
               files |-> [files EXCEPT ![path[1]] =
                             Some(SubSeq(Serialize(ls), 1, io[2]))]]
         ELSE [result |-> "Ok",
               files |-> [files EXCEPT ![path[1]] = Some(Serialize(ls))]]
    ELSE IF debug
         THEN [result |-> "panic", files |-> files]       \* panic!
         ELSE [result |-> "Ok", files |-> files]

\* The index of the first "\n" of contents, 0 when there is none.
FirstNewline(contents) ==
    IF \E i \in 1..Len(contents) : contents[i] = "\n"
    THEN CHOOSE i \in 1..Len(contents) :
            /\ contents[i] = "\n"
            /\ \A j \in 1..(i - 1) : contents[j] # "\n"
    ELSE 0

\* A line as str::lines yields it: without the "\r" that preceded its "\n".
StripCarriageReturn(piece) ==
    IF piece # <<>> /\ piece[Len(piece)] = "\r"
    THEN SubSeq(piece, 1, Len(piece) - 1) ELSE piece

\* A mutant of StrLines: the contents are split at every "\n", as
\* str::split('\n') does: what follows the last "\n" is a line even if empty.
RECURSIVE StrSplitNewline(_)
StrSplitNewline(contents) ==
    LET i == FirstNewline(contents)
    IN  IF i = 0 THEN <<contents>>
        ELSE <<StripCarriageReturn(SubSeq(contents, 1, i - 1))>>
                 \o StrSplitNewline(SubSeq(contents, i + 1, Len(contents)))

\* contents.lines() (str::lines): the pieces that end in "\n" or "\r\n",
\* without that ending, and what follows the last "\n" unless it is empty.
RECURSIVE StrLines(_)
StrLines(contents) ==
    LET i == FirstNewline(contents)
    IN  IF i = 0
        THEN IF contents = <<>> THEN <<>> ELSE <<contents>>
        ELSE <<StripCarriageReturn(SubSeq(contents, 1, i - 1))>>
                 \o StrLines(SubSeq(contents, i + 1, Len(contents)))

\* Line::from(value) (specification, section 4.2): the graphemes of value,
\* here one per character.
LineFrom(value) == [i \in 1..Len(value) |-> value[i]]

\* How read_to_string goes on a file that exists: "ok", or "err" for any
\* error of the file system (the file cannot be opened or read, or its bytes
\* are not UTF-8).
ReadOutcomes == {"ok", "err"}

\* Buffer::load: Err when the file is missing or cannot be read, else the
\* Buffer of the file's lines, with the file's FileInfo, not dirty.
BufferLoad(files, file_name, io) ==
    IF files[file_name] = None \/ io = "err"
    THEN [result |-> "Err"]
    ELSE [result |-> "Ok",
          lines |-> LET values == StrLines(files[file_name][1])
                    IN  [i \in 1..Len(values) |-> LineFrom(values[i])],
          file_info |-> FileInfoFrom(file_name),
          dirty |-> FALSE]

\* --------------------------------------------------- the editing session
RECURSIVE TotalGraphemes(_)
TotalGraphemes(ls) ==
    IF ls = <<>> THEN 0 ELSE Len(Head(ls)) + TotalGraphemes(Tail(ls))

\* The Buffers within the bounds.
WithinBounds(ls) == Len(ls) <= MaxLines /\ TotalGraphemes(ls) <= MaxGraphemes

LinesUpTo(n) == UNION {[1..k -> Chars] : k \in 0..n}
BoundedBuffers ==
    {ls \in UNION {[1..k -> LinesUpTo(MaxGraphemes)] : k \in 0..MaxLines} :
        WithinBounds(ls)}

\* The Locations a caller passes to insert_char and insert_newline: any line
\* index up to one past the append position, any grapheme index of that line
\* up to its end.
InsertLocations(ls) ==
    {at \in [line_idx : 0..(Len(ls) + 1), grapheme_idx : 0..TotalGraphemes(ls)] :
        at.grapheme_idx <= BufferGraphemeCount(ls, at.line_idx)}

\* The Locations a caller passes to delete and delete_range: as above, and
\* one grapheme past each line's end, two line indices past the last line.
DeleteLocations(ls) ==
    {at \in [line_idx : 0..(Len(ls) + 1), grapheme_idx : 0..(MaxGraphemes + 1)] :
        at.grapheme_idx <= BufferGraphemeCount(ls, at.line_idx) + 1}

NoLocation == Location(0, 0)
NoCall == [op |-> "none", at |-> NoLocation, to |-> NoLocation,
           character |-> "", query |-> <<>>, file_name |-> "", io |-> ""]
CallSave(op, file_name) == [op |-> op, at |-> NoLocation, to |-> NoLocation,
                            character |-> "", query |-> <<>>, file_name |-> file_name,
                            io |-> ""]
Call(op, at, to, ch) == [NoCall EXCEPT !.op = op, !.at = at, !.to = to,
                                       !.character = ch]
CallSearch(op, query, from) == [NoCall EXCEPT !.op = op, !.at = from, !.to = from,
                                              !.query = query]
\* The Buffer as an operation finds it.
Snapshot(ls, d, fi, w) == [lines |-> ls, dirty |-> d, file_info |-> fi, written |-> w]
NoPre == Snapshot(<<>>, FALSE, NoPath, NothingWritten)
\* ret: <<>> when nothing was returned (or None), <<x>> for Some(x).
NoRet == <<>>

\* One operation runs to completion: its outcome o becomes the state.
Returns(c, o) ==
    /\ pc' = "returned"
    /\ call' = c
    /\ pre' = Snapshot(lines, dirty, file_info, written)
    /\ ret' = NoRet
    /\ lines' = o.buf.lines
    /\ dirty' = o.buf.dirty
    /\ panicked' = o.panic
    /\ UNCHANGED <<file_info, written, debug_assertions, iterVars, selVars>>

Ready == pc = "idle" /\ ~panicked

\* insert_char and insert_newline, while the Buffer they leave holds at most
\* MaxLines lines and max graphemes.
InsertCharUpTo(max, character, at) ==
    /\ Ready
    /\ \E o \in {BufferInsertChar(Buf(lines, dirty), debug_assertions, character, at)} :
          /\ Len(o.buf.lines) <= MaxLines
          /\ TotalGraphemes(o.buf.lines) <= max
          /\ Returns(Call("insert_char", at, at, character), o)

InsertNewlineUpTo(max, at) ==
    /\ Ready
    /\ \E o \in {Done(BufferInsertNewline(Buf(lines, dirty), at))} :
          /\ Len(o.buf.lines) <= MaxLines
          /\ TotalGraphemes(o.buf.lines) <= max
          /\ Returns(Call("insert_newline", at, at, ""), o)

InsertChar(character, at) == InsertCharUpTo(MaxGraphemes, character, at)

InsertNewline(at) == InsertNewlineUpTo(MaxGraphemes, at)

Delete(at) ==
    /\ Ready
    /\ \E o \in {Done(BufferDelete(Buf(lines, dirty), at))} :
          Returns(Call("delete", at, at, ""), o)

DeleteRange(a, b) ==
    /\ Ready
    /\ \E o \in {BufferDeleteRange(Buf(lines, dirty), <<a, b>>)} :
          Returns(Call("delete_range", a, b, ""), o)

\* get_a_grapheme reads the Buffer and returns an Option<String>.
GetAGrapheme(at) ==
    /\ Ready
    /\ pc' = "returned"
    /\ call' = Call("get_a_grapheme", at, at, "")
    /\ pre' = Snapshot(lines, dirty, file_info, written)
    /\ ret' = BufferGetAGrapheme(lines, at)
    /\ UNCHANGED <<bufVars, debug_assertions, panicked, iterVars, selVars>>

\* search_forward and search_backward read the Buffer and return a Location.
SearchForward(query, from) ==
    /\ Ready
    /\ pc' = "returned"
    /\ call' = CallSearch("search_forward", query, from)
    /\ pre' = Snapshot(lines, dirty, file_info, written)
    /\ ret' = BufferSearchForward(lines, query, from)
    /\ UNCHANGED <<bufVars, debug_assertions, panicked, iterVars, selVars>>

SearchBackward(query, from) ==
    /\ Ready
    /\ pc' = "returned"
    /\ call' = CallSearch("search_backward", query, from)
    /\ pre' = Snapshot(lines, dirty, file_info, written)
    /\ ret' = BufferSearchBackward(lines, query, from)
    /\ UNCHANGED <<bufVars, debug_assertions, panicked, iterVars, selVars>>

\* Buffer::save_as: on Ok the Buffer takes the new FileInfo and is clean.
SaveAs(file_name, io) ==
    /\ Ready
    /\ \E o \in {SaveToFile(lines, FileInfoFrom(file_name), written,
                             debug_assertions, io)} :
          /\ pc' = "returned"
          /\ call' = CallSave("save_as", file_name)
          /\ pre' = Snapshot(lines, dirty, file_info, written)
          /\ written' = o.files
          /\ panicked' = (o.result = "panic")
          /\ ret' = IF o.result = "panic" THEN NoRet ELSE Some(o.result)
          /\ file_info' = IF o.result = "Ok" THEN FileInfoFrom(file_name) ELSE file_info
          /\ dirty' = IF o.result = "Ok" THEN FALSE ELSE dirty
    /\ UNCHANGED <<lines, debug_assertions, iterVars, selVars>>

\* Buffer::save: on Ok the Buffer is clean.
Save(io) ==
    /\ Ready
    /\ \E o \in {SaveToFile(lines, file_info, written, debug_assertions, io)} :
          /\ pc' = "returned"
          /\ call' = CallSave("save", "")
          /\ pre' = Snapshot(lines, dirty, file_info, written)
          /\ written' = o.files
          /\ panicked' = (o.result = "panic")
          /\ ret' = IF o.result = "panic" THEN NoRet ELSE Some(o.result)
          /\ dirty' = IF o.result = "Ok" THEN FALSE ELSE dirty
    /\ UNCHANGED <<lines, file_info, debug_assertions, iterVars, selVars>>

\* Buffer::load(file_name): on Ok the loaded Buffer becomes the session's
\* Buffer; on Err the session keeps the Buffer it has.
Load(file_name, io) ==
    /\ Ready
    /\ \E o \in {BufferLoad(written, file_name, io)} :
          /\ pc' = "returned"
          /\ call' = [CallSave("load", file_name) EXCEPT !.io = io]
          /\ pre' = Snapshot(lines, dirty, file_info, written)
          /\ ret' = Some(o.result)
          /\ IF o.result = "Ok"
             THEN /\ lines' = o.lines
                  /\ file_info' = o.file_info
                  /\ dirty' = o.dirty
             ELSE UNCHANGED <<lines, file_info, dirty>>
    /\ UNCHANGED <<written, debug_assertions, panicked, iterVars, selVars>>

\* The session takes up the next operation (specification, section 5: one
\* operation runs to completion before the next is considered).
AwaitNext ==
    /\ pc = "returned"
    /\ ~panicked
    /\ pc' = "idle"
    /\ call' = NoCall
    /\ pre' = NoPre
    /\ ret' = NoRet
    /\ UNCHANGED <<bufVars, debug_assertions, panicked, iterVars, selVars>>

\* No iterator: the text and annotation variables at rest.
NoIterator ==
    /\ string = <<>>
    /\ annotations = <<>>
    /\ current_idx = 0
    /\ parts = <<>>
    /\ yielded = "Start"

\* No SelectHighlighter: SelectHighlighter::default().
NoHighlighter ==
    /\ selected_range = <<NoLocation, NoLocation>>
    /\ highlights = <<>>

\* No Buffer session: the Buffer and call variables at rest.
NoSession ==
    /\ lines = <<>>
    /\ dirty = FALSE
    /\ file_info = NoPath
    /\ written = NothingWritten
    /\ debug_assertions = FALSE
    /\ pc = "idle"
    /\ call = NoCall
    /\ pre = NoPre
    /\ ret = NoRet


\* The Buffer of the specification's examples: ["ab", "cd"].
ExampleBuffers == {<< <<"a", "b">>, <<"c", "d">> >>}

\* An editing session starts with Buffer::load of a file holding any lines
\* within the bounds (none included) or the lines of an example, in a debug
\* or a release build.
InitEdit ==
    /\ NoIterator
    /\ NoHighlighter
    /\ debug_assertions \in BOOLEAN
    /\ lines \in BoundedBuffers \cup ExampleBuffers
    /\ file_info = FileInfoFrom(FileName)
    /\ dirty = FALSE
    /\ written = NothingWritten
    /\ panicked = FALSE
    /\ pc = "idle"
    /\ call = NoCall
    /\ pre = NoPre
    /\ ret = NoRet

NextEdit ==
    \/ \E ch \in Chars, at \in InsertLocations(lines) : InsertChar(ch, at)
    \/ \E at \in InsertLocations(lines) : InsertNewline(at)
    \/ \E at \in DeleteLocations(lines) : Delete(at)
    \/ \E a, b \in DeleteLocations(lines) : DeleteRange(a, b)
    \/ \E at \in DeleteLocations(lines) : GetAGrapheme(at)
    \/ AwaitNext

SpecEdit == InitEdit /\ [][NextEdit]_vars

\* The characters typed in a typing session.
TypedChars == {"a", "b", "c"}

\* A typing session starts with Buffer::default(): no lines, no file path, in
\* a debug or a release build.
InitType ==
    /\ NoIterator
    /\ NoHighlighter
    /\ debug_assertions \in BOOLEAN
    /\ lines = <<>>
    /\ file_info = NoPath
    /\ dirty = FALSE
    /\ written = NothingWritten
    /\ panicked = FALSE
    /\ pc = "idle"
    /\ call = NoCall
    /\ pre = NoPre
    /\ ret = NoRet

NextType ==
    \/ \E ch \in TypedChars, at \in InsertLocations(lines) :
          InsertCharUpTo(MaxTyped, ch, at)
    \/ \E at \in InsertLocations(lines) : InsertNewlineUpTo(MaxTyped, at)
    \/ AwaitNext

SpecType == InitType /\ [][NextType]_vars

\* The Buffers of a file session: within the bounds, of the one grapheme "a".
FileChar == "a"
FileBuffers == {ls \in BoundedBuffers : \A i \in 1..Len(ls) : \A j \in 1..Len(ls[i]) :
                   ls[i][j] = FileChar}

\* A file session starts with Buffer::default() (no path), or with
\* Buffer::load of a file holding any lines of FileBuffers; in a debug or a
\* release build; nothing written yet.
InitFile ==
    /\ NoIterator
    /\ NoHighlighter
    /\ debug_assertions \in BOOLEAN
    /\ \/ lines = <<>> /\ file_info = NoPath
       \/ lines \in FileBuffers /\ file_info = FileInfoFrom(FileName)
    /\ dirty = FALSE
    /\ written = NothingWritten
    /\ panicked = FALSE
    /\ pc = "idle"
    /\ call = NoCall
    /\ pre = NoPre
    /\ ret = NoRet

NextFile ==
    \/ \E at \in InsertLocations(lines) : InsertChar(FileChar, at)
    \/ \E at \in InsertLocations(lines) : InsertNewline(at)
    \/ \E at \in DeleteLocations(lines) : Delete(at)
    \/ \E a, b \in DeleteLocations(lines) : DeleteRange(a, b)
    \/ \E io \in IoOutcomes(lines) : Save(io)
    \/ \E f \in FileNames, io \in IoOutcomes(lines) : SaveAs(f, io)
    \/ AwaitNext

SpecFile == InitFile /\ [][NextFile]_vars

\* The graphemes of a save-and-load session: a letter and the control
\* characters "\r" and "\n" (insert_char takes any char).
RoundTripChars == {"a", "\r", "\n"}
RoundTripLines == UNION {[1..n -> RoundTripChars] : n \in 0..MaxGraphemes}

\* A save-and-load session: a Buffer of any lines of RoundTripLines within
\* the bounds, typed in from Buffer::default() (dirty unless empty, no file
\* path), in a release build; nothing written yet.
InitRoundTrip ==
    /\ NoIterator
    /\ NoHighlighter
    /\ debug_assertions = FALSE
    /\ \E k \in 0..MaxLines : lines \in [1..k -> RoundTripLines]
    /\ WithinBounds(lines)
    /\ file_info = NoPath
    /\ dirty = (lines # <<>>)
    /\ written = NothingWritten
    /\ panicked = FALSE
    /\ pc = "idle"
    /\ call = NoCall
    /\ pre = NoPre
    /\ ret = NoRet

NextRoundTrip ==
    \/ \E f \in FileNames, io \in IoOutcomes(lines) : SaveAs(f, io)
    \/ \E f \in FileNames, io \in ReadOutcomes : Load(f, io)
    \/ AwaitNext

SpecRoundTrip == InitRoundTrip /\ [][NextRoundTrip]_vars

\* The queries: any graphemes up to MaxQueryLen (none included), and the
\* query of the specification's example.
Queries == UNION {[1..k -> Chars] : k \in 0..MaxQueryLen} \cup {<<"a", "b", "c">>}

\* The Buffer of the specification's search example: ["abc", "def"].
SearchExampleBuffers == {<< <<"a", "b", "c">>, <<"d", "e", "f">> >>}

\* The Locations a search starts from: a line index up to the height, a
\* grapheme index of that line up to its end.
SearchLocations(ls) ==
    {at \in [line_idx : 0..Len(ls), grapheme_idx : 0..(MaxGraphemes + 1)] :
        at.grapheme_idx <= BufferGraphemeCount(ls, at.line_idx)}

SearchBuffers ==
    {ls \in UNION {[1..k -> LinesUpTo(MaxSearchGraphemes)] : k \in 0..MaxLines} :
        TotalGraphemes(ls) <= MaxSearchGraphemes}

\* A search session: a Buffer loaded from a file holding any lines within the
\* search bounds, or the lines of the example.  The searches read no build
\* flag.
InitSearch ==
    /\ NoIterator
    /\ NoHighlighter
    /\ debug_assertions = FALSE
    /\ lines \in SearchBuffers \cup SearchExampleBuffers
    /\ file_info = FileInfoFrom(FileName)
    /\ dirty = FALSE
    /\ written = NothingWritten
    /\ panicked = FALSE
    /\ pc = "idle"
    /\ call = NoCall
    /\ pre = NoPre
    /\ ret = NoRet

NextSearch ==
    \/ \E q \in Queries, from \in SearchLocations(lines) : SearchForward(q, from)
    \/ \E q \in Queries, from \in SearchLocations(lines) : SearchBackward(q, from)
    \/ AwaitNext

SpecSearch == InitSearch /\ [][NextSearch]_vars

\* ------------------------------------------------------ selection overlay
\* highlight_selected_words: "if start.line_idx > end.line_idx" the pair is
\* swapped, stored in self.selected_range, and the method runs again on it.
SelectedRangeByLine(range) ==
    IF range[1].line_idx > range[2].line_idx
    THEN <<range[2], range[1]>> ELSE range

\* SelectHighlighter::highlight_selected_words(idx, line, result) with
\* self.selected_range = range: the selected_range it leaves and the
\* annotations it pushes to result.
HighlightSelectedWords(idx, line, range) ==
    LET start == SelectedRangeByLine(range)[1]
        end   == SelectedRangeByLine(range)[2]
        highlight_start == IF idx > start.line_idx THEN 0 ELSE start.grapheme_idx
        highlight_end   == IF idx < end.line_idx
                           THEN GraphemeCount(line) ELSE end.grapheme_idx
    IN  [selected_range |-> <<start, end>>,
         result |-> IF idx >= start.line_idx /\ idx <= end.line_idx
                    THEN <<Annotation(Select, highlight_start, highlight_end)>>
                    ELSE <<>>]

\* HashMap::insert(idx, result)
MapInsert(map, idx, result) ==
    [i \in (DOMAIN map) \cup {idx} |-> IF i = idx THEN result ELSE map[i]]

\* Buffer::highlight(idx, highlighter): when line idx exists,
\* SelectHighlighter::highlight(idx, line) computes the line's annotations and
\* stores them in highlights; otherwise nothing happens.
Highlight(idx) ==
    /\ Ready
    /\ IF HasLine(lines, idx)
       THEN LET h == HighlightSelectedWords(idx, lines[idx + 1], selected_range)
            IN  /\ selected_range' = h.selected_range
                /\ highlights' = MapInsert(highlights, idx, h.result)
       ELSE UNCHANGED selVars
    /\ UNCHANGED <<bufVars, callVars, debug_assertions, panicked, iterVars>>

\* A render session: a Buffer loaded from a file holding any lines within the
\* bounds, and SelectHighlighter::new(selected_range) for any pair of
\* Locations a caller may hold (out-of-range ones included).
InitSelect ==
    /\ NoIterator
    /\ debug_assertions = FALSE
    /\ lines \in BoundedBuffers
    /\ file_info = FileInfoFrom(FileName)
    /\ dirty = FALSE
    /\ written = NothingWritten
    /\ selected_range \in DeleteLocations(lines) \X DeleteLocations(lines)
    /\ highlights = <<>>
    /\ panicked = FALSE
    /\ pc = "idle"
    /\ call = NoCall
    /\ pre = NoPre
    /\ ret = NoRet

NextSelect == \E idx \in 0..Len(lines) : Highlight(idx)

SpecSelect == InitSelect /\ [][NextSelect]_vars

\* The texts: an ASCII text of each length up to MaxTextLen ("abcabc..."),
\* and two texts with the two-byte character U+00E9: "\u00e9" and "a\u00e9".
Letters == <<"a", "b", "c">>
TextOfLen(n) == [i \in 1..n |-> Letters[((i - 1) % 3) + 1]]
TwoByteChar == <<"C3", "A9">>
MultiByteTexts == {TwoByteChar, <<"a">> \o TwoByteChar}
Texts == {TextOfLen(n) : n \in 0..MaxTextLen} \cup MultiByteTexts

\* Annotations over a text of length n: any type, any start up to the end of
\* the text and any end up to one past it (start >= end included).
AnnotationsOver(n) ==
    {Annotation(t, s, e) : t \in AnnotationType, s \in 0..n, e \in 0..(n + 1)}

\* A syntax annotation registered before two Select annotations, all over a
\* text of length n.
SyntaxThenSelects(n) ==
    {<<k, s1, s2>> : k \in {a \in AnnotationsOver(n) : a.annotation_type # Select},
                     s1 \in {a \in AnnotationsOver(n) : a.annotation_type = Select},
                     s2 \in {a \in AnnotationsOver(n) : a.annotation_type = Select}}

\* The text of the specification's example, with a syntax annotation over
\* [0,5) and a Select annotation over [2,8), registered in either order.
HelloWorld == <<"H", "e", "l", "l", "o", " ", "W", "o", "r", "l", "d">>
ExampleAnnotations ==
    {<<Annotation("Keyword", 0, 5), Annotation(Select, 2, 8)>>,
     <<Annotation(Select, 2, 8), Annotation("Keyword", 0, 5)>>}

\* AnnotatedString::into_iter: a text, its annotations, the cursor at 0.
InitIter ==
    /\ \/ /\ string \in Texts
          /\ \E k \in 0..MaxAnnotations :
                 annotations \in [1..k -> AnnotationsOver(Len(string))]
       \/ /\ string \in Texts
          /\ annotations \in SyntaxThenSelects(Len(string))
       \/ /\ string = HelloWorld
          /\ annotations \in ExampleAnnotations
    /\ current_idx = 0
    /\ parts = <<>>
    /\ yielded = "Start"
    /\ panicked = FALSE
    /\ NoSession
    /\ NoHighlighter

NextIter == IterNextSome \/ IterNextNone

SpecIter == InitIter /\ [][NextIter]_vars

\* ------------------------------------------------- claims on Buffer editing
EditOps == {"insert_char", "insert_newline", "delete", "delete_range"}

\* An edit operation has just run (to completion or to a panic).
Returned(op) == pc = "returned" /\ call.op = op

\* The graphemes of the document, line after line.
RECURSIVE Flatten(_)
Flatten(ls) == IF ls = <<>> THEN <<>> ELSE Head(ls) \o Flatten(Tail(ls))

\* a is at or before b in document order.
LocLeq(a, b) ==
    \/ a.line_idx < b.line_idx
    \/ (a.line_idx = b.line_idx /\ a.grapheme_idx <= b.grapheme_idx)

\* at addresses a grapheme or the end of a line of ls.
ValidLocation(ls, at) ==
    /\ at.line_idx < Len(ls)
    /\ at.grapheme_idx <= Len(ls[at.line_idx + 1])

\* C3: after insert_char, insert_newline, delete or delete_range, dirty is
\* true if the call changed the lines, and is what it was if the call changed
\* nothing.
C3_DirtyTracksChange ==
    (pc = "returned" /\ call.op \in EditOps) =>
        /\ (lines # pre.lines => dirty)
        /\ (lines = pre.lines => dirty = pre.dirty)

\* C3 witnesses: a delete that changed nothing left a clean Buffer clean
\* (at the end of its last line), and the Buffer it was called on was not
\* empty.
C3_Witness ==
    /\ Returned("delete")
    /\ pre.lines # <<>>
    /\ HasLine(pre.lines, call.at.line_idx)
    /\ lines = pre.lines
    /\ ~pre.dirty /\ ~dirty

\* C5: delete_range over a range whose normalized ends are valid locations
\* leaves the lines before the start line, then the head of the start line
\* joined to the tail of the end line, then the lines after the end line; the
\* height drops by the number of line boundaries crossed; dirty is set when the
\* range is not empty.
C5_DeleteRangeSplice ==
    Returned("delete_range") =>
        LET s == IF LocLeq(call.at, call.to) THEN call.at ELSE call.to
            e == IF LocLeq(call.at, call.to) THEN call.to ELSE call.at
        IN  (ValidLocation(pre.lines, s) /\ ValidLocation(pre.lines, e)) =>
              LET first == pre.lines[s.line_idx + 1]
                  last  == pre.lines[e.line_idx + 1]
              IN  /\ ~panicked
                  /\ lines = SubSeq(pre.lines, 1, s.line_idx)
                             \o << SubSeq(first, 1, s.grapheme_idx)
                                   \o SubSeq(last, e.grapheme_idx + 1, Len(last)) >>
                             \o SubSeq(pre.lines, e.line_idx + 2, Len(pre.lines))
                  /\ Len(lines) = Len(pre.lines) - (e.line_idx - s.line_idx)
                  /\ (s # e => dirty)

\* C5 witness: a range from inside the first line to inside the third line,
\* across a middle line, was deleted.
C5_Witness ==
    /\ Returned("delete_range")
    /\ ValidLocation(pre.lines, call.at) /\ ValidLocation(pre.lines, call.to)
    /\ call.at.line_idx = 0 /\ call.to.line_idx = 2
    /\ call.at.grapheme_idx = 1 /\ call.to.grapheme_idx = 0
    /\ Len(pre.lines[2]) = 1
    /\ Len(lines) = 1
    /\ dirty

\* C6: delete_range((a, b)) leaves the state delete_range((b, a)) leaves, from
\* the same Buffer: the same lines, the same dirty flag (and a panic alike).
C6_DeleteRangeDirectionFree ==
    Returned("delete_range") =>
        [buf |-> Buf(lines, dirty), panic |-> panicked]
            = BufferDeleteRange(Buf(pre.lines, pre.dirty), <<call.to, call.at>>)

\* C6 witness: a reversed range within one line was deleted and the line lost
\* graphemes.
C6_Witness ==
    /\ Returned("delete_range")
    /\ call.at.line_idx = call.to.line_idx
    /\ call.at.grapheme_idx > call.to.grapheme_idx
    /\ lines # pre.lines
    /\ Len(lines) = Len(pre.lines)

\* C7: delete(at) on an existing line: at or past the line's end with a line
\* following, the following line is removed and its graphemes appended
\* (height - 1, the document's graphemes unchanged); inside the line, exactly
\* that grapheme goes and the height stays; otherwise, and on no line, the
\* lines are unchanged.  ["ab", "cd"] with delete at the end of line 0 gives
\* ["abcd"].
C7_DeleteCases ==
    Returned("delete") =>
        LET l == call.at.line_idx
            g == call.at.grapheme_idx
            old == pre.lines
        IN  /\ ~panicked
            /\ IF l < Len(old) /\ g >= Len(old[l + 1]) /\ l + 1 < Len(old)
               THEN /\ Len(lines) = Len(old) - 1
                    /\ Flatten(lines) = Flatten(old)
                    /\ lines[l + 1] = old[l + 1] \o old[l + 2]
                    /\ \A i \in 1..Len(lines) :
                          i # l + 1 => lines[i] = (IF i <= l THEN old[i] ELSE old[i + 1])
               ELSE IF l < Len(old) /\ g < Len(old[l + 1])
               THEN /\ Len(lines) = Len(old)
                    /\ lines[l + 1] = SubSeq(old[l + 1], 1, g)
                                         \o SubSeq(old[l + 1], g + 2, Len(old[l + 1]))
                    /\ \A i \in 1..Len(old) : i # l + 1 => lines[i] = old[i]
               ELSE lines = old
            /\ (old = << <<"a", "b">>, <<"c", "d">> >> /\ l = 0 /\ g = 2
                  => lines = << <<"a", "b", "c", "d">> >>)

\* C7 witness: the example: delete at the end of line 0 of ["ab", "cd"] left
\* the one line "abcd".
C7_Witness ==
    /\ Returned("delete")
    /\ pre.lines = << <<"a", "b">>, <<"c", "d">> >>
    /\ call.at = Location(0, 2)
    /\ lines = << <<"a", "b", "c", "d">> >>

\* C15: insert_char(ch, at) with at.line_idx equal to the line count appends
\* the line "ch" and leaves the other lines; with at.line_idx below the height
\* (and at.grapheme_idx up to the line's end) ch is the grapheme at
\* at.grapheme_idx of that line, the line without it is the old line, and the
\* other lines and the height are unchanged.  'a', 'b', 'c' inserted at (0,0),
\* (0,1), (0,2) from the empty Buffer give [], ["a"], ["ab"], ["abc"].
C15_InsertCharCases ==
    Returned("insert_char") =>
        LET l   == call.at.line_idx
            g   == call.at.grapheme_idx
            ch  == call.character
            old == pre.lines
        IN  /\ l = Len(old) =>
                  /\ ~panicked
                  /\ lines = Append(old, <<ch>>)
                  /\ Len(lines) = Len(old) + 1
            /\ (l < Len(old) /\ g <= Len(old[l + 1])) =>
                  /\ ~panicked
                  /\ Len(lines) = Len(old)
                  /\ Len(lines[l + 1]) = Len(old[l + 1]) + 1
                  /\ lines[l + 1][g + 1] = ch
                  /\ SubSeq(lines[l + 1], 1, g) = SubSeq(old[l + 1], 1, g)
                  /\ SubSeq(lines[l + 1], g + 2, Len(lines[l + 1]))
                        = SubSeq(old[l + 1], g + 1, Len(old[l + 1]))
                  /\ \A i \in 1..Len(old) : i # l + 1 => lines[i] = old[i]
            /\ (old = <<>> /\ ch = "a" /\ call.at = Location(0, 0))
                  => lines = << <<"a">> >>
            /\ (old = << <<"a">> >> /\ ch = "b" /\ call.at = Location(0, 1))
                  => lines = << <<"a", "b">> >>
            /\ (old = << <<"a", "b">> >> /\ ch = "c" /\ call.at = Location(0, 2))
                  => lines = << <<"a", "b", "c">> >>

\* C15 witness: the last step of the example: 'c' inserted at (0, 2) of
\* ["ab"] left the single line "abc".
C15_Witness ==
    /\ Returned("insert_char")
    /\ pre.lines = << <<"a", "b">> >>
    /\ call.character = "c"
    /\ call.at = Location(0, 2)
    /\ lines = << <<"a", "b", "c">> >>

\* C16: insert_newline(at) with at.line_idx equal to the line count appends
\* an empty line; with at.line_idx below the height (and at.grapheme_idx up to
\* the line's end) the line keeps its first at.grapheme_idx graphemes and a
\* new line with the others follows it.  Either way the height grows by 1,
\* the other lines keep content and order, and the document's graphemes are
\* unchanged.
C16_InsertNewlineCases ==
    Returned("insert_newline") =>
        LET l   == call.at.line_idx
            g   == call.at.grapheme_idx
            old == pre.lines
        IN  /\ ~panicked
            /\ l = Len(old) => lines = Append(old, <<>>)
            /\ (l < Len(old) /\ g <= Len(old[l + 1])) =>
                  /\ lines[l + 1] = SubSeq(old[l + 1], 1, g)
                  /\ lines[l + 2] = SubSeq(old[l + 1], g + 1, Len(old[l + 1]))
                  /\ \A i \in 1..Len(old) :
                        i # l + 1 => old[i] = lines[IF i <= l THEN i ELSE i + 1]
            /\ l <= Len(old) =>
                  /\ Len(lines) = Len(old) + 1
                  /\ Flatten(lines) = Flatten(old)
                  /\ dirty

\* C16 witness: a line of two graphemes, with a line after it, was split in
\* its middle.
C16_Witness ==
    /\ Returned("insert_newline")
    /\ Len(pre.lines) = 2
    /\ call.at = Location(0, 1)
    /\ Len(pre.lines[1]) = 2
    /\ Len(lines) = 3
    /\ Len(lines[1]) = 1 /\ Len(lines[2]) = 1

\* C18 (as claimed): get_a_grapheme(at) returns the grapheme at at inside a
\* line, "\n" exactly at a line's end, None past the line's end or on no
\* line; and it returns Some exactly when delete(at) would change the Buffer.
C18_GraphemeIsWhatDeleteRemoves ==
    Returned("get_a_grapheme") =>
        LET l == call.at.line_idx
            g == call.at.grapheme_idx
        IN  /\ IF l < Len(lines) /\ g < Len(lines[l + 1])
               THEN ret = Some(lines[l + 1][g + 1])
               ELSE IF l < Len(lines) /\ g = Len(lines[l + 1])
               THEN ret = Some("\n")
               ELSE ret = None
            /\ (ret # None) <=>
                  (BufferDelete(Buf(lines, dirty), call.at).lines # lines)

\* A Location that addresses no line, or a grapheme index past a line's end.
OutOfRange(ls, at) ==
    \/ at.line_idx > Len(ls)
    \/ at.grapheme_idx > BufferGraphemeCount(ls, at.line_idx)

\* C10 (as claimed): a positional operation called with an out-of-range
\* Location completes without a panic, in debug and in release builds.
C10_OutOfRangeNeverPanics ==
    (/\ pc = "returned"
     /\ call.op \in EditOps
     /\ (OutOfRange(pre.lines, call.at) \/ OutOfRange(pre.lines, call.to)))
        => ~panicked

\* ----------------------------------------------------- claims on saving
SaveOps == {"save", "save_as"}

\* C4 (as claimed): dirty goes from true to false only in a save or save_as
\* that succeeds in writing the lines to the target file; a save or save_as
\* that fails with an I/O error leaves dirty, the file info and the lines as
\* they were.
C4_CleanOnlyBySuccessfulSave ==
    pc = "returned" =>
        /\ (pre.dirty /\ ~dirty) =>
              /\ call.op \in SaveOps
              /\ ret = Some("Ok")
              /\ file_info # NoPath
              /\ written[file_info[1]] = Some(Serialize(lines))
        /\ (call.op \in SaveOps /\ ret = Some("Err")) =>
              /\ dirty = pre.dirty
              /\ file_info = pre.file_info
              /\ lines = pre.lines

\* C11 (as claimed): save() on a Buffer with no known file path panics in a
\* debug build; in a release build it returns Ok, writes nothing and leaves
\* the lines, the file info and the dirty flag as they were.
C11_SaveWithoutPathNoOp ==
    (Returned("save") /\ pre.file_info = NoPath) =>
        IF debug_assertions
        THEN panicked
        ELSE /\ ~panicked
             /\ ret = Some("Ok")
             /\ written = pre.written
             /\ lines = pre.lines
             /\ file_info = pre.file_info
             /\ dirty = pre.dirty

\* ------------------------------------------- claims on the selection overlay
\* The intersection of a normalized range (start at or before end in document
\* order) with line idx, as a Select annotation; none off the range's lines.
SelectionOnLine(range, idx, line) ==
    IF range[1].line_idx <= idx /\ idx <= range[2].line_idx
    THEN <<Annotation(Select,
               IF idx > range[1].line_idx THEN 0 ELSE range[1].grapheme_idx,
               IF idx < range[2].line_idx THEN Len(line) ELSE range[2].grapheme_idx)>>
    ELSE <<>>

\* C12 (as claimed): the annotations stored for a highlighted line are those
\* highlighting gives for the reversed selected range, and are the
\* intersection of the normalized range with the line; a range reversed
\* within one line included.
C12_SelectionDirectionFree ==
    \A idx \in DOMAIN highlights :
        LET line == lines[idx + 1]
            reversed == <<selected_range[2], selected_range[1]>>
        IN  /\ highlights[idx] = HighlightSelectedWords(idx, line, reversed).result
            /\ highlights[idx] = SelectionOnLine(NormalizeRange(selected_range), idx, line)

\* No line of ls holds a control character.
NoControlChars(ls) ==
    \A i \in 1..Len(ls) : \A j \in 1..Len(ls[i]) : ls[i][j] \notin {"\r", "\n"}

\* C17: load(path), called on a Buffer without control characters when the
\* file at path holds what a successful save_as(path) of that Buffer wrote,
\* and reading the file without an I/O error, returns Ok with the same
\* sequence of lines, dirty = false and the path known; the empty Buffer,
\* empty lines and a trailing empty line included.
C17_SaveLoadRoundTrip ==
    (/\ Returned("load")
     /\ NoControlChars(pre.lines)
     /\ pre.written[call.file_name] = Some(Serialize(pre.lines))
     /\ call.io = "ok") =>
        /\ ret = Some("Ok")
        /\ lines = pre.lines
        /\ ~dirty
        /\ file_info = FileInfoFrom(call.file_name)

\* C17 witness: a Buffer with an empty line and a trailing empty line was
\* saved and loaded again.
C17_Witness ==
    /\ Returned("load")
    /\ Len(pre.lines) = 3
    /\ pre.lines[1] = <<"a">> /\ pre.lines[2] = <<>> /\ pre.lines[3] = <<>>
    /\ pre.written[call.file_name] = Some(Serialize(pre.lines))
    /\ call.io = "ok"
    /\ lines = pre.lines
    /\ ret = Some("Ok")

\* C21 (as claimed): every annotation the selection overlay stores for a
\* line satisfies the Annotation invariant 0 <= start < end, whatever the
\* selected range (reversed, empty, or ending at column 0 of its last line).
C21_OverlayAnnotationsWellFormed ==
    \A idx \in DOMAIN highlights :
        \A k \in 1..Len(highlights[idx]) :
            /\ 0 <= highlights[idx][k].start
            /\ highlights[idx][k].start < highlights[idx][k].end

\* --------------------------------------------------- claims on ring search
\* Some line of ls contains query.
Occurs(ls, query) ==
    \E l \in 1..Len(ls) : \E i \in 0..Len(ls[l]) : MatchesAt(ls[l], query, i)

\* The k-th line the forward search visits from line origin, of n lines.
ForwardLine(origin, k, n) == (origin + k - 1) % n

\* The matches the forward ring order offers: <<k, i>> for a match at grapheme
\* index i of the k-th line visited, k in 1..n+1, at or after from.grapheme_idx
\* on the first visit and anywhere on the later ones.
ForwardMatches(ls, query, from) ==
    {m \in (1..(Len(ls) + 1)) \X (0..MaxSearchGraphemes) :
        /\ MatchesAt(ls[ForwardLine(from.line_idx, m[1], Len(ls)) + 1], query, m[2])
        /\ (m[1] = 1 => m[2] >= from.grapheme_idx)}

\* C8: search_forward from a line of the Buffer returns the first match in
\* the ring order (the origin line from from.grapheme_idx, the following lines
\* from column 0 wrapping past the last line, the origin line again from
\* column 0), and returns None exactly when the query is empty or occurs in no
\* line.  On ["abc", "def"], "abc" from (1, 0) is found at (0, 0).
C8_SearchForwardRing ==
    (Returned("search_forward") /\ call.at.line_idx < Len(lines)) =>
        LET ms == ForwardMatches(lines, call.query, call.at)
        IN  /\ (ret = None) <=> (call.query = <<>> \/ ~Occurs(lines, call.query))
            /\ ret # None =>
                  \E m \in ms :
                     /\ \A o \in ms : m[1] < o[1] \/ (m[1] = o[1] /\ m[2] <= o[2])
                     /\ ret = Some(Location(
                                 ForwardLine(call.at.line_idx, m[1], Len(lines)), m[2]))
            /\ (/\ lines = << <<"a", "b", "c">>, <<"d", "e", "f">> >>
                 /\ call.query = <<"a", "b", "c">>
                 /\ call.at = Location(1, 0))
                   => ret = Some(Location(0, 0))

\* C8 witness: the example: "abc" searched from (1, 0) in ["abc", "def"] was
\* found at (0, 0), past the end of the ring.
C8_Witness ==
    /\ Returned("search_forward")
    /\ lines = << <<"a", "b", "c">>, <<"d", "e", "f">> >>
    /\ call.query = <<"a", "b", "c">>
    /\ call.at = Location(1, 0)
    /\ ret = Some(Location(0, 0))

\* The k-th line the backward search visits from line origin, of n lines.
BackwardLine(origin, k, n) == (origin + 2 * n - (k - 1)) % n

\* The matches the backward ring order offers: <<k, i>> for a match at
\* grapheme index i of the k-th line visited, k in 1..n+1, found scanning
\* backward from from.grapheme_idx on the first visit and from the line's end
\* on the later ones.
BackwardMatches(ls, query, from) ==
    {m \in (1..(Len(ls) + 1)) \X (0..MaxSearchGraphemes) :
        LET line == ls[BackwardLine(from.line_idx, m[1], Len(ls)) + 1]
        IN  LineSearchBackward(line, query,
                IF m[1] = 1 THEN from.grapheme_idx ELSE Len(line)) = Some(m[2])}

\* C9: search_backward from a line of the Buffer visits the origin line
\* (searched backward from from.grapheme_idx), then each preceding line in
\* decreasing order wrapping from line 0 to the last line (each searched from
\* its end), then the origin line again from its end: height + 1 visits at
\* most; it returns the first match in that order, and None when the query is
\* empty or nothing matches.
C9_SearchBackwardRing ==
    (Returned("search_backward") /\ call.at.line_idx < Len(lines)) =>
        LET ms == BackwardMatches(lines, call.query, call.at)
            visits == BackwardVisits(lines, call.at)
        IN  /\ Len(visits) = Len(lines) + 1
            /\ \A k \in 1..Len(visits) :
                  visits[k][1] = BackwardLine(call.at.line_idx, k, Len(lines))
            /\ (call.query = <<>> \/ ms = {}) => ret = None
            /\ (call.query # <<>> /\ ms # {}) =>
                  \E m \in ms :
                     /\ \A o \in ms : m[1] <= o[1]
                     /\ ret = Some(Location(
                                 BackwardLine(call.at.line_idx, m[1], Len(lines)), m[2]))
            /\ (ret = None) <=> (call.query = <<>> \/ ~Occurs(lines, call.query))

\* C9 witness: a backward search from line 0 wrapped to the last line and
\* found its match there.
C9_Witness ==
    /\ Returned("search_backward")
    /\ Len(lines) = 3
    /\ call.at.line_idx = 0
    /\ ret # None
    /\ ret[1].line_idx = 2

\* ---------------------------------------------------- claims on the iterator
RECURSIVE ConcatParts(_)
ConcatParts(ps) ==
    IF ps = <<>> THEN <<>> ELSE Head(ps).string \o ConcatParts(Tail(ps))

\* The annotations (by registration index) that cover offset o.
Covering(anns, o) ==
    {k \in 1..Len(anns) : anns[k].start <= o /\ o < anns[k].end}

\* The Annotation invariant 0 <= start < end, for every annotation.
WellFormedAnnotations(anns) ==
    \A k \in 1..Len(anns) : 0 <= anns[k].start /\ anns[k].start < anns[k].end

\* C1 (as claimed): for every text and every annotations, no next() panics
\* and the parts next() returns are contiguous: the first starts at offset 0,
\* each starts where the previous one ended, none is cut outside the text,
\* together they spell the text up to the cursor, and once next() has
\* returned None they spell the whole text.
C1_PartsReproduceText ==
    /\ ~panicked
    /\ \A i \in 1..Len(parts) :
          /\ parts[i].start = (IF i = 1 THEN 0 ELSE parts[i - 1].end)
          /\ parts[i].start <= parts[i].end
          /\ parts[i].string = SubSeq(string, parts[i].start + 1, parts[i].end)
    /\ current_idx = (IF parts = <<>> THEN 0 ELSE parts[Len(parts)].end)
    /\ ConcatParts(parts) = SubSeq(string, 1, current_idx)
    /\ (yielded = "None" => ConcatParts(parts) = string)

\* C2 (as claimed): with well-formed annotations, every offset of a part is
\* covered by exactly the annotations that cover the part's first offset, and
\* the part's annotation_types are the types of those annotations.
C2_ActiveSetConstant ==
    WellFormedAnnotations(annotations) =>
        \A i \in 1..Len(parts) :
            /\ \A o \in parts[i].start..(parts[i].end - 1) :
                  Covering(annotations, o) = Covering(annotations, parts[i].start)
            /\ parts[i].annotation_types =
                  AnnotationTypes(ActiveAnnotations(annotations, parts[i].start))

\* The least element of a non-empty set of numbers.
Least(S) == CHOOSE x \in S : \A y \in S : x <= y

\* The syntax (non-Select) annotations, by registration index, covering o.
SyntaxCovering(anns, o) ==
    {k \in Covering(anns, o) : anns[k].annotation_type # Select}

\* The types in a sequence of annotation types, as a set.
TypeSet(types) == {types[k] : k \in 1..Len(types)}

\* A part as <<start, end, set of annotation types>>.
Span(part) == <<part.start, part.end, TypeSet(part.annotation_types)>>

\* C13: a part that starts where a Select annotation is active (the first
\* such annotation registered, when several are) ends at the earliest of that
\* Select's end, the end of the text, the ends of the syntax annotations
\* active there and the starts of the syntax annotations starting later; it
\* carries Select, and the syntax annotations covering each of its offsets
\* are exactly those whose types it carries.  "Hello World" with Syntax [0,5)
\* and Select [2,8) gives [0,2){Syntax}, [2,5){Syntax,Select}, [5,8){Select},
\* [8,11){}.
C13_SyntaxVisibleInSelection ==
    /\ \A i \in 1..Len(parts) :
          LET c      == parts[i].start
              active == ActiveAnnotations(annotations, c)
              sel    == FindSelect(active)
              syntax == SyntaxCovering(annotations, c)
          IN  sel # <<>> =>
                /\ parts[i].end =
                      Least({Len(string), sel[1].end}
                            \cup {annotations[k].end : k \in syntax}
                            \cup {annotations[k].start :
                                     k \in {j \in 1..Len(annotations) :
                                               /\ annotations[j].annotation_type # Select
                                               /\ annotations[j].start > c}})
                /\ Select \in TypeSet(parts[i].annotation_types)
                /\ \A o \in c..(parts[i].end - 1) :
                      SyntaxCovering(annotations, o) = syntax
                /\ TypeSet(parts[i].annotation_types) \ {Select}
                      = {annotations[k].annotation_type : k \in syntax}
    /\ (string = HelloWorld /\ yielded = "None") =>
          [i \in 1..Len(parts) |-> Span(parts[i])]
              = << <<0, 2, {"Keyword"}>>, <<2, 5, {"Keyword", Select}>>,
                   <<5, 8, {Select}>>, <<8, 11, {}>> >>

\* C13 witness: the example was iterated to the end, and its second part
\* starts inside the syntax annotation where the selection begins.
C13_Witness ==
    /\ string = HelloWorld
    /\ yielded = "None"
    /\ Len(parts) = 4
    /\ parts[2].start = 2 /\ parts[2].end = 5

\* C14 (as claimed): a text with no annotations, the empty text included,
\* iterated to the end, gives exactly one part: the text, with no annotation
\* type.
C14_OnePartWithoutAnnotations ==
    (annotations = <<>> /\ yielded = "None") =>
        /\ Len(parts) = 1
        /\ parts[1].string = string
        /\ parts[1].annotation_types = <<>>

\* C14 (amended): a non-empty text with no annotations gives exactly one
\* part, the text with no annotation type; the empty text gives no part.
C14_OnePartForNonEmptyText ==
    annotations = <<>> =>
        /\ Len(parts) <= 1
        /\ yielded = "None" =>
              IF string = <<>>
              THEN parts = <<>>
              ELSE /\ Len(parts) = 1
                   /\ parts[1].string = string
                   /\ parts[1].annotation_types = <<>>

\* C14 witness: a text of three characters with no annotations was iterated
\* to the end in one part.
C14_Witness ==
    /\ annotations = <<>>
    /\ Len(string) = 3
    /\ yielded = "None"
    /\ Len(parts) = 1
    /\ parts[1].string = string

\* C19: for every text and annotations (ends past the text and start >= end
\* included), a next() called with text left either panics on the slice and
\* returns nothing, or returns a part and moves current_idx to a greater
\* value that is at most the length of the text, so that no more parts than
\* the text has bytes are returned; a next() called with no text left returns
\* None and leaves current_idx and the parts as they are.
C19_NextAlwaysAdvances ==
    [][IF current_idx < Len(string)
       THEN IF panicked'
            THEN parts' = parts
            ELSE /\ yielded' = "Some"
                 /\ current_idx' > current_idx
                 /\ current_idx' <= Len(string)
                 /\ Len(parts') = Len(parts) + 1
                 /\ Len(parts') <= Len(string)
       ELSE /\ yielded' = "None"
            /\ current_idx' = current_idx
            /\ parts' = parts]_vars

\* C19 witness: a text of three characters under an annotation that ends
\* past the text and one whose start is not before its end was iterated to
\* the end, in as many parts as it has characters.
C19_Witness ==
    /\ yielded = "None"
    /\ Len(string) = 3
    /\ Len(parts) = 3
    /\ \E k \in 1..Len(annotations) : annotations[k].end > Len(string)
    /\ \E k \in 1..Len(annotations) : annotations[k].start >= annotations[k].end

\* C20 (as claimed): with well-formed annotations, a part that starts where
\* annotations are active, none of them Select, ends at the least of the ends
\* of the active annotations (and the end of the text) and the starts of the
\* Select annotations lying after the part's start and before that end,
\* however many Select annotations there are and in whatever order they were
\* registered; and no part without the Select type holds an offset that a
\* Select annotation covers.
C20_SelectionStartsItsOwnPart ==
    WellFormedAnnotations(annotations) =>
        \A i \in 1..Len(parts) :
            LET c      == parts[i].start
                active == ActiveAnnotations(annotations, c)
                end    == Least({Len(string)}
                                \cup {active[k].end : k \in 1..Len(active)})
            IN  /\ (active # <<>> /\ FindSelect(active) = <<>>) =>
                      parts[i].end =
                          Least({end} \cup
                                {annotations[k].start :
                                   k \in {j \in 1..Len(annotations) :
                                             /\ annotations[j].annotation_type = Select
                                             /\ annotations[j].start > c
                                             /\ annotations[j].start < end}})
                /\ Select \notin TypeSet(parts[i].annotation_types) =>
                      \A o \in c..(parts[i].end - 1) :
                          \A k \in Covering(annotations, o) :
                              annotations[k].annotation_type # Select

====
